---- MODULE Spec2Model ----
(***************************************************************************)
(* PermissionChecker (src/routes/middleWare.tsx): a rule evaluator over a  *)
(* user's permission and role lists with three per-instance lookup caches. *)
(*                                                                         *)
(* JavaScript values are modelled as follows.                              *)
(*   booleans            "true" / "false"                                  *)
(*   undefined           "undefined"                                       *)
(*   an inherited member of Object.prototype (a function object, truthy)   *)
(*                       "function"                                        *)
(*   null user / null list entry / null options   the record [null|->TRUE] *)
(*   arrays              sequences                                         *)
(* A call is one step: pc goes from "ready" to "returned" and ret holds    *)
(* what the caller receives; Return hands control back to the caller,      *)
(* which may then issue the next call.  In ret, args is the argument       *)
(* ([name |-> n], [names |-> list], the options object, or NoArgs), value  *)
(* a returned primitive, result a returned PermissionCheckResult, list a   *)
(* returned array, threw and error the thrown error if any.                *)
(***************************************************************************)
EXTENDS Integers, Sequences, FiniteSets, TLC

VARIABLES user, permissions, roles, permissionCache, roleCache, guardCache, pc, ret,
          other,
          instances, isRefreshing, failedQueue, requests, cookies, location,
          store, storage, view,
          routeCall, localStorage, added, maxItems

\* The state of the AxiosAdapter instances and of the browser they run in
httpVars == <<instances, isRefreshing, failedQueue, requests, cookies, location>>

\* The state of the permission checkers
checkerVars == <<user, permissions, roles, permissionCache, roleCache, guardCache, pc, ret,
                other>>

\* The zustand store, its persisted entry, and what a gating component rendered
uiVars == <<store, storage, view>>

\* The last call of a route helper; the browser's localStorage entry of the
\* recent searches, the searches added so far and the limit the caller uses
libVars == <<routeCall, localStorage, added, maxItems>>

\* Everything but the permission checkers
appVars == <<httpVars, uiVars, libVars>>

vars == <<checkerVars, appVars>>

-----------------------------------------------------------------------------
(* Bounds of the model *)

\* Entries a user record holds, permissions and roles together
MaxHeld == 2
\* Names one call requires
MaxReq == 2
\* Requests the application issues
MaxRequests == 2

\* Calls of recentSearchesStorage.add in one run
MaxAdded == 4

\* The largest limit a caller passes as maxItems
MaxItems == 2

-----------------------------------------------------------------------------
(* Value domains *)

NullValue == [null |-> TRUE]

\* Members every object literal {} inherits from Object.prototype.
ObjectPrototypeKeys == {"constructor", "toString"}

\* Permission entries users may hold: { name, guardName } (title and
\* categoryName are never read by the checker), or a malformed null entry.
Permission == {[name |-> "user.read", guardName |-> "web"],
               [name |-> "user.create", guardName |-> "api"]}

Role == {[name |-> "admin"]}

\* Names the callers ask about: names users hold, names they do not, and
\* names that are also members of Object.prototype.
PermissionQueryNames == {"user.read", "user.create", "constructor"}
RoleQueryNames == {"admin", "manager", "toString"}
GuardQueryNames == {"web", "constructor"}

\* The arrays of at most n elements of S
RECURSIVE SeqsUpTo(_, _)
SeqsUpTo(S, n) ==
  IF n = 0 THEN {<<>>}
  ELSE LET shorter == SeqsUpTo(S, n - 1) IN
       shorter \cup {Append(s, x) : s \in {t \in shorter : Len(t) = n - 1}, x \in S}

PermissionLists == SeqsUpTo(Permission \cup {NullValue}, MaxHeld)
RoleLists == SeqsUpTo(Role \cup {NullValue}, MaxHeld)

User == {[permissions |-> t[1], roles |-> t[2]] :
           t \in {t \in PermissionLists \X RoleLists : Len(t[1]) + Len(t[2]) <= MaxHeld}}

\* User records whose permissions list, roles list or both are missing
PartialUser ==
  {[id |-> "1", roles |-> rs] : rs \in RoleLists}
    \cup {[id |-> "1", permissions |-> ps] : ps \in PermissionLists}
    \cup {[id |-> "1"]}

-----------------------------------------------------------------------------
(* PermissionCache: an object literal used as a string-keyed map *)

Absent == "absent"

\* private permissionCache: PermissionCache = {}
EmptyCache(keys) == [k \in keys |-> Absent]

\* cache[key]: an own property if it was assigned, else whatever the
\* prototype chain of {} yields, else undefined.
CacheGet(cache, key) ==
  IF cache[key] # Absent THEN cache[key]
  ELSE IF key \in ObjectPrototypeKeys THEN "function"
  ELSE "undefined"

\* cache[key] = value
CacheSet(cache, key, value) == [cache EXCEPT ![key] = value]

\* JavaScript truthiness of the values above
Truthy(v) == v \in {"true", "function"}

-----------------------------------------------------------------------------
(* The instance, passed through the methods as a record *)

This == [user |-> user, permissions |-> permissions, roles |-> roles,
         permissionCache |-> permissionCache, roleCache |-> roleCache,
         guardCache |-> guardCache]

\* Outcome of a method call: the value returned or the error thrown, and
\* the instance as the call leaves it.
Returned(c, v) == [threw |-> FALSE, value |-> v, error |-> "none", checker |-> c]
Thrown(c, e) == [threw |-> TRUE, value |-> "undefined", error |-> e, checker |-> c]

\* list.some((entry) => entry[field] === key); reading a field of a null
\* entry raises a TypeError.
RECURSIVE SomeEntry(_, _, _)
SomeEntry(list, field, key) ==
  IF list = <<>> THEN "false"
  ELSE IF Head(list) = NullValue THEN "throw"
  ELSE IF Head(list)[field] = key THEN "true"
  ELSE SomeEntry(Tail(list), field, key)

\* constructor(user): this.permissions = user?.permissions || []
constructor(u) ==
  [user |-> u,
   permissions |-> IF u = NullValue \/ "permissions" \notin DOMAIN u
                   THEN <<>> ELSE u.permissions,
   roles |-> IF u = NullValue \/ "roles" \notin DOMAIN u
             THEN <<>> ELSE u.roles,
   permissionCache |-> EmptyCache(PermissionQueryNames),
   roleCache |-> EmptyCache(RoleQueryNames),
   guardCache |-> EmptyCache(GuardQueryNames)]

\* Variant: authentication judged by the (always present) permissions array
isAuthenticated_ByList(c) == Len(c.permissions) >= 0

isAuthenticated(c) == c.user # NullValue

\* Variant: the entry stored is true whatever the scan found
getCachedPermission_StoresTrue(c, permissionName) ==
  IF CacheGet(c.permissionCache, permissionName) = "undefined"
  THEN LET r == SomeEntry(c.permissions, "name", permissionName) IN
       IF r = "throw" THEN Thrown(c, "TypeError")
       ELSE Returned([c EXCEPT !.permissionCache = CacheSet(@, permissionName, "true")], r)
  ELSE Returned(c, CacheGet(c.permissionCache, permissionName))

getCachedPermission(c, permissionName) ==
  IF CacheGet(c.permissionCache, permissionName) = "undefined"
  THEN LET r == SomeEntry(c.permissions, "name", permissionName) IN
       IF r = "throw" THEN Thrown(c, "TypeError")
       ELSE Returned([c EXCEPT !.permissionCache = CacheSet(@, permissionName, r)], r)
  ELSE Returned(c, CacheGet(c.permissionCache, permissionName))

getCachedRole(c, roleName) ==
  IF CacheGet(c.roleCache, roleName) = "undefined"
  THEN LET r == SomeEntry(c.roles, "name", roleName) IN
       IF r = "throw" THEN Thrown(c, "TypeError")
       ELSE Returned([c EXCEPT !.roleCache = CacheSet(@, roleName, r)], r)
  ELSE Returned(c, CacheGet(c.roleCache, roleName))

getCachedGuard(c, guardName) ==
  IF CacheGet(c.guardCache, guardName) = "undefined"
  THEN LET r == SomeEntry(c.permissions, "guardName", guardName) IN
       IF r = "throw" THEN Thrown(c, "TypeError")
       ELSE Returned([c EXCEPT !.guardCache = CacheSet(@, guardName, r)], r)
  ELSE Returned(c, CacheGet(c.guardCache, guardName))

hasPermission(c, permissionName) == getCachedPermission(c, permissionName)

hasPermissionByGuard(c, guardName) == getCachedGuard(c, guardName)

hasRole(c, roleName) == getCachedRole(c, roleName)

\* The single-name query selected by kind
Has(c, kind, name) ==
  CASE kind = "permission" -> hasPermission(c, name)
    [] kind = "role" -> hasRole(c, name)
    [] kind = "guard" -> hasPermissionByGuard(c, name)

\* names.some((x) => this.has(x)): stops at the first truthy answer
RECURSIVE ArraySome(_, _, _)
ArraySome(c, kind, names) ==
  IF names = <<>> THEN Returned(c, "false")
  ELSE LET r == Has(c, kind, Head(names)) IN
       IF r.threw THEN r
       ELSE IF Truthy(r.value) THEN Returned(r.checker, "true")
       ELSE ArraySome(r.checker, kind, Tail(names))

\* names.every((x) => this.has(x)): stops at the first falsy answer
RECURSIVE ArrayEvery(_, _, _)
ArrayEvery(c, kind, names) ==
  IF names = <<>> THEN Returned(c, "true")
  ELSE LET r == Has(c, kind, Head(names)) IN
       IF r.threw THEN r
       ELSE IF ~Truthy(r.value) THEN Returned(r.checker, "false")
       ELSE ArrayEvery(r.checker, kind, Tail(names))

\* names.filter((x) => !this.has(x))
RECURSIVE ArrayFilterMissing(_, _, _)
ArrayFilterMissing(c, kind, names) ==
  IF names = <<>> THEN Returned(c, <<>>)
  ELSE LET r == Has(c, kind, Head(names)) IN
       IF r.threw THEN r
       ELSE LET rest == ArrayFilterMissing(r.checker, kind, Tail(names)) IN
            IF rest.threw THEN rest
            ELSE IF Truthy(r.value) THEN rest
            ELSE Returned(rest.checker, <<Head(names)>> \o rest.value)

\* list.map((entry) => entry.name)
RECURSIVE ArrayMapName(_, _)
ArrayMapName(c, list) ==
  IF list = <<>> THEN Returned(c, <<>>)
  ELSE IF Head(list) = NullValue THEN Thrown(c, "TypeError")
  ELSE LET rest == ArrayMapName(c, Tail(list)) IN
       IF rest.threw THEN rest ELSE Returned(c, <<Head(list).name>> \o rest.value)

hasAnyPermission(c, names) == ArraySome(c, "permission", names)

\* Variant: an empty requirement list is rejected
hasAllPermissions_NonEmpty(c, names) ==
  IF names = <<>> THEN Returned(c, "false") ELSE ArrayEvery(c, "permission", names)

hasAllPermissions(c, names) == ArrayEvery(c, "permission", names)

hasAnyRole(c, names) == ArraySome(c, "role", names)

hasAllRoles(c, names) == ArrayEvery(c, "role", names)

hasAnyGuard(c, names) == ArraySome(c, "guard", names)

hasAllGuards(c, names) == ArrayEvery(c, "guard", names)

-----------------------------------------------------------------------------
(* checkPermissions *)

\* const { requiredPermissions = [], ... } = options: a missing field takes
\* its default; destructuring null raises a TypeError.
OptionOr(options, field, default) ==
  IF field \in DOMAIN options THEN options[field] ELSE default

\* Variant: the missing names are collected whether or not the category passed
CheckCategory_AlwaysCollects(c, kind, required, requireAll) ==
  IF Len(required) > 0
  THEN LET has == IF requireAll THEN ArrayEvery(c, kind, required)
                  ELSE ArraySome(c, kind, required) IN
       IF has.threw THEN has
       ELSE LET missing == ArrayFilterMissing(has.checker, kind, required) IN
            IF missing.threw THEN missing
            ELSE Returned(missing.checker, <<Truthy(has.value), missing.value>>)
  ELSE Returned(c, <<TRUE, <<>>>>)

\* Variant: every required name of a failed category is reported missing
CheckCategory_ReportsAllRequired(c, kind, required, requireAll) ==
  IF Len(required) > 0
  THEN LET has == IF requireAll THEN ArrayEvery(c, kind, required)
                  ELSE ArraySome(c, kind, required) IN
       IF has.threw THEN has
       ELSE IF ~Truthy(has.value) THEN Returned(has.checker, <<FALSE, required>>)
       ELSE Returned(has.checker, <<TRUE, <<>>>>)
  ELSE Returned(c, <<TRUE, <<>>>>)

\* Variant: the category is evaluated even when nothing is required
CheckCategory_NoLengthGuard(c, kind, required, requireAll) ==
  LET has == IF requireAll THEN ArrayEvery(c, kind, required)
             ELSE ArraySome(c, kind, required) IN
  IF has.threw THEN has
  ELSE IF ~Truthy(has.value)
  THEN LET missing == ArrayFilterMissing(has.checker, kind, required) IN
       IF missing.threw THEN missing
       ELSE Returned(missing.checker, <<FALSE, missing.value>>)
  ELSE Returned(has.checker, <<TRUE, <<>>>>)

\* One category of checkPermissions: skipped when nothing is required,
\* otherwise hasAll*/hasAny* per requireAll and, on failure, the required
\* names that individually fail the single-name query.
\* value = <<category passed, missing names>>
CheckCategory(c, kind, required, requireAll) ==
  IF Len(required) > 0
  THEN LET has == IF requireAll THEN ArrayEvery(c, kind, required)
                  ELSE ArraySome(c, kind, required) IN
       IF has.threw THEN has
       ELSE IF ~Truthy(has.value)
       THEN LET missing == ArrayFilterMissing(has.checker, kind, required) IN
            IF missing.threw THEN missing
            ELSE Returned(missing.checker, <<FALSE, missing.value>>)
       ELSE Returned(has.checker, <<TRUE, <<>>>>)
  ELSE Returned(c, <<TRUE, <<>>>>)

\* Variant: the catch block rethrows
CheckFailed_Rethrows(c, e) == Thrown(c, e)

\* Variant: the names are put in front of those already collected
PushMissing_Front(missing, names) == names \o missing

\* missing.push(...names)
PushMissing(missing, names) == missing \o names

\* The catch block
CheckFailed(c, e) ==
  Returned(c, [hasPermission |-> FALSE, missingPermissions |-> <<>>,
               missingRoles |-> <<>>, userPermissions |-> <<>>,
               userRoles |-> <<>>, error |-> e])

checkPermissions(c, options) ==
  IF options = NullValue THEN CheckFailed(c, "TypeError")
  ELSE
  LET requiredPermissions == OptionOr(options, "requiredPermissions", <<>>)
      requiredRoles == OptionOr(options, "requiredRoles", <<>>)
      requiredGuardNames == OptionOr(options, "requiredGuardNames", <<>>)
      requireAll == OptionOr(options, "requireAll", FALSE)
  IN
  IF ~isAuthenticated(c) THEN CheckFailed(c, "AuthenticationError")
  ELSE
  LET userPermissions == ArrayMapName(c, c.permissions) IN
  IF userPermissions.threw THEN CheckFailed(c, userPermissions.error)
  ELSE
  LET userRoles == ArrayMapName(c, c.roles) IN
  IF userRoles.threw THEN CheckFailed(c, userRoles.error)
  ELSE
  LET p == CheckCategory(c, "permission", requiredPermissions, requireAll) IN
  IF p.threw THEN CheckFailed(p.checker, p.error)
  ELSE
  LET r == CheckCategory(p.checker, "role", requiredRoles, requireAll) IN
  IF r.threw THEN CheckFailed(r.checker, r.error)
  ELSE
  LET g == CheckCategory(r.checker, "guard", requiredGuardNames, requireAll) IN
  IF g.threw THEN CheckFailed(g.checker, g.error)
  ELSE
  Returned(g.checker,
           [hasPermission |-> p.value[1] /\ r.value[1] /\ g.value[1],
            missingPermissions |-> PushMissing(p.value[2], g.value[2]),
            missingRoles |-> r.value[2],
            userPermissions |-> userPermissions.value,
            userRoles |-> userRoles.value,
            error |-> "none"])

\* Variant: the guard cache survives
clearCache_KeepsGuards(c) ==
  Returned([c EXCEPT !.permissionCache = EmptyCache(PermissionQueryNames),
                     !.roleCache = EmptyCache(RoleQueryNames)], "undefined")

clearCache(c) ==
  Returned([c EXCEPT !.permissionCache = EmptyCache(PermissionQueryNames),
                     !.roleCache = EmptyCache(RoleQueryNames),
                     !.guardCache = EmptyCache(GuardQueryNames)], "undefined")

\* Variant: only the entries that are objects are returned
getUserPermissions_ObjectsOnly(c) ==
  Returned(c, SelectSeq(c.permissions, LAMBDA p : p # NullValue))

getUserPermissions(c) == Returned(c, c.permissions)

getUserRoles(c) == Returned(c, c.roles)

(* Arguments of the calls *)

PermissionNameLists == SeqsUpTo(PermissionQueryNames, MaxReq)
RoleNameLists == SeqsUpTo(RoleQueryNames, MaxReq)
GuardNameLists == SeqsUpTo(GuardQueryNames, MaxReq)

\* Options objects: null; objects with every field given and either at
\* most MaxReq required names in total or one required name in each
\* category; objects that leave fields out.
Options ==
  {NullValue}
  \cup {[requiredPermissions |-> t[1], requiredRoles |-> t[2],
         requiredGuardNames |-> t[3], requireAll |-> ra] :
          t \in {t \in PermissionNameLists \X RoleNameLists \X GuardNameLists :
                   \/ Len(t[1]) + Len(t[2]) + Len(t[3]) <= MaxReq
                   \/ Len(t[1]) = 1 /\ Len(t[2]) = 1 /\ Len(t[3]) = 1},
          ra \in BOOLEAN}
  \cup {[requiredRoles |-> rr] : rr \in RoleNameLists}

-----------------------------------------------------------------------------

\* What ret holds while no call has returned
NoArgs == [none |-> TRUE]
NoResult == [none |-> TRUE]
NoCall == [op |-> "none", args |-> NoArgs, threw |-> FALSE, error |-> "none",
           value |-> "undefined", result |-> NoResult, list |-> <<>>]

-----------------------------------------------------------------------------
(* AxiosAdapter (src/lib/swaggerConfig/axiosAdapter.ts): requests, the
   adapters that carry them, and the cookies and location of the browser.
   A request is the record of its config and its promise: adapter is the
   instance it was issued on (0 before it is issued), state one of "new",
   "inflight" (sent, no response yet), "queued" (in failedQueue),
   "refreshing" (its handler awaits the refresh-token request), "resolved",
   "rejected"; retry is the _retry mark, Authorization the token of the header
   ("undefined" when no header is set), sent the number of times it was sent, outcome
   what its promise settled with, via the way it was issued ("apiInstance",
   or "adapter" for a method called on an adapter the caller constructed). *)

Requests == 1..MaxRequests
Adapters == 1..MaxRequests
Tokens == {"token-1", "token-2"}
NoToken == "undefined"

\* The application issues its requests in the order of their numbers
NextRequest(r) ==
  /\ requests[r].state = "new"
  /\ \A q \in Requests : q < r => requests[q].state # "new"

NewRequest ==
  [adapter |-> 0, via |-> "none", state |-> "new", retry |-> FALSE,
   Authorization |-> NoToken, sent |-> 0, outcome |-> "none"]

\* No adapter constructed, no request issued
HttpInit ==
  /\ instances = {}
  /\ isRefreshing = [a \in Adapters |-> FALSE]
  /\ failedQueue = [a \in Adapters |-> <<>>]
  /\ requests = [r \in Requests |-> NewRequest]
  /\ cookies = [access |-> NoToken, refresh |-> FALSE]
  /\ location = "/"

-----------------------------------------------------------------------------
(* The application store (src/helpers/feature/types.ts) and the components
   that gate on it.  storage is the 'app-storage' entry of localStorage, view
   the outcome of the last render of a gating component: what it rendered
   ("children", "fallbackComponent", "error" for the error message,
   "loading" for the placeholder), the navigate call of its effect, and the
   callbacks it invoked. *)

initialState == [user |-> NullValue, isAuthenticated |-> FALSE, theme |-> "light"]

NoEntry == [present |-> FALSE]

NoNavigate == [to |-> "none", replace |-> FALSE, from |-> "none"]

NoProps ==
  [requiredPermissions |-> <<>>, requiredRoles |-> <<>>, requiredGuardNames |-> <<>>,
   requireAll |-> FALSE, showErrorBoundary |-> TRUE, redirectTo |-> "/401"]

NoView ==
  [component |-> "none", props |-> NoProps, pathname |-> "none", rendered |-> "nothing",
   navigate |-> NoNavigate, onPermissionDenied |-> FALSE, onError |-> FALSE,
   state |-> initialState]

\* Nothing stored, nothing rendered
UiInit ==
  /\ store = initialState
  /\ storage = NoEntry
  /\ view = NoView

-----------------------------------------------------------------------------
(* The route helpers (src/routes/routesObject) and the recent searches kept
   in localStorage (src/service/storage).  routeCall is the last call of a
   route helper with what it returned; localStorage the entry stored under
   STORAGE_KEYS.RECENT_SEARCHES, a JSON text as a sequence of tokens. *)

NoRouteCall ==
  [op |-> "none", path |-> "none", userPermissions |-> <<>>, userRoles |-> <<>>,
   value |-> FALSE, routes |-> <<>>]

\* this.storage.getItem(key) === null
NoItem == [present |-> FALSE, text |-> <<>>]

\* No helper called, nothing stored
LibInit ==
  /\ routeCall = NoRouteCall
  /\ localStorage = NoItem
  /\ added = <<>>
  /\ maxItems = 1

-----------------------------------------------------------------------------

Init ==
  /\ HttpInit
  /\ UiInit
  /\ LibInit
  /\ user \in User \cup {NullValue}
  /\ permissions = constructor(user).permissions
  /\ roles = constructor(user).roles
  /\ permissionCache = constructor(user).permissionCache
  /\ roleCache = constructor(user).roleCache
  /\ guardCache = constructor(user).guardCache
  /\ pc = "ready"
  /\ ret = NoCall
  /\ other = constructor(NullValue)

\* The call returns (or throws) r to the caller and leaves the instance as r.checker.
Call(op, args, r) ==
  /\ pc = "ready"
  /\ pc' = "returned"
  /\ ret' = [op |-> op, args |-> args, threw |-> r.threw, error |-> r.error,
             value |-> IF op \in {"checkPermissions", "getUserPermissions", "getUserRoles"}
                       THEN "object" ELSE r.value,
             result |-> IF op = "checkPermissions" THEN r.value ELSE NoResult,
             list |-> IF op \in {"getUserPermissions", "getUserRoles"} THEN r.value ELSE <<>>]
  /\ user' = r.checker.user
  /\ permissions' = r.checker.permissions
  /\ roles' = r.checker.roles
  /\ permissionCache' = r.checker.permissionCache
  /\ roleCache' = r.checker.roleCache
  /\ guardCache' = r.checker.guardCache
  /\ other' = other
  /\ UNCHANGED appVars

CallHasPermission ==
  \E n \in PermissionQueryNames : Call("hasPermission", [name |-> n], hasPermission(This, n))

CallHasRole ==
  \E n \in RoleQueryNames : Call("hasRole", [name |-> n], hasRole(This, n))

CallHasPermissionByGuard ==
  \E g \in GuardQueryNames : Call("hasPermissionByGuard", [name |-> g], hasPermissionByGuard(This, g))

CallHasAnyPermission ==
  \E ns \in PermissionNameLists : Call("hasAnyPermission", [names |-> ns], hasAnyPermission(This, ns))

CallHasAllPermissions ==
  \E ns \in PermissionNameLists : Call("hasAllPermissions", [names |-> ns], hasAllPermissions(This, ns))

CallHasAnyRole ==
  \E ns \in RoleNameLists : Call("hasAnyRole", [names |-> ns], hasAnyRole(This, ns))

CallHasAllRoles ==
  \E ns \in RoleNameLists : Call("hasAllRoles", [names |-> ns], hasAllRoles(This, ns))

CallHasAnyGuard ==
  \E ns \in GuardNameLists : Call("hasAnyGuard", [names |-> ns], hasAnyGuard(This, ns))

CallHasAllGuards ==
  \E ns \in GuardNameLists : Call("hasAllGuards", [names |-> ns], hasAllGuards(This, ns))

CallCheckPermissions ==
  \E options \in Options : Call("checkPermissions", options, checkPermissions(This, options))

CallClearCache == Call("clearCache", NoArgs, clearCache(This))

CallGetUserPermissions == Call("getUserPermissions", NoArgs, getUserPermissions(This))

CallGetUserRoles == Call("getUserRoles", NoArgs, getUserRoles(This))

CallIsAuthenticated ==
  Call("isAuthenticated", NoArgs,
       Returned(This, IF isAuthenticated(This) THEN "true" ELSE "false"))

Return ==
  /\ pc = "returned"
  /\ pc' = "ready"
  /\ ret' = NoCall
  /\ UNCHANGED <<user, permissions, roles, permissionCache, roleCache, guardCache, other>>
  /\ UNCHANGED appVars

Next ==
  \/ CallHasPermission
  \/ CallHasRole
  \/ CallHasPermissionByGuard
  \/ CallHasAnyPermission
  \/ CallHasAllPermissions
  \/ CallHasAnyRole
  \/ CallHasAllRoles
  \/ CallHasAnyGuard
  \/ CallHasAllGuards
  \/ CallCheckPermissions
  \/ CallClearCache
  \/ CallGetUserPermissions
  \/ CallGetUserRoles
  \/ CallIsAuthenticated
  \/ Return

Spec == Init /\ [][Next]_vars

\* The checker is constructed over a user record with a missing list
InitPartial ==
  /\ HttpInit
  /\ UiInit
  /\ LibInit
  /\ user \in PartialUser
  /\ permissions = constructor(user).permissions
  /\ roles = constructor(user).roles
  /\ permissionCache = constructor(user).permissionCache
  /\ roleCache = constructor(user).roleCache
  /\ guardCache = constructor(user).guardCache
  /\ pc = "ready"
  /\ ret = NoCall
  /\ other = constructor(NullValue)

SpecPartial == InitPartial /\ [][Next]_vars

-----------------------------------------------------------------------------
(* Two instances, each constructed over its own user snapshot *)

Snapshots ==
  {[permissions |-> <<[name |-> "user.read", guardName |-> "web"]>>,
    roles |-> <<[name |-> "admin"]>>],
   [permissions |-> <<[name |-> "user.create", guardName |-> "api"]>>,
    roles |-> <<>>],
   NullValue}

InitTwo ==
  /\ HttpInit
  /\ UiInit
  /\ LibInit
  /\ user \in Snapshots
  /\ permissions = constructor(user).permissions
  /\ roles = constructor(user).roles
  /\ permissionCache = constructor(user).permissionCache
  /\ roleCache = constructor(user).roleCache
  /\ guardCache = constructor(user).guardCache
  /\ pc = "ready"
  /\ ret = NoCall
  /\ \E u \in Snapshots \ {user} : other = constructor(u)

\* Variant: the three caches are shared by the instances
OtherCall_SharedCaches(op, args, r) ==
  /\ pc = "ready"
  /\ pc' = "returned"
  /\ ret' = [op |-> op, args |-> args, threw |-> r.threw, error |-> r.error,
             value |-> r.value, result |-> NoResult, list |-> <<>>]
  /\ other' = r.checker
  /\ permissionCache' = r.checker.permissionCache
  /\ roleCache' = r.checker.roleCache
  /\ guardCache' = r.checker.guardCache
  /\ UNCHANGED <<user, permissions, roles>>
  /\ UNCHANGED appVars

\* The call is made on the other instance and leaves it as r.checker.
OtherCall(op, args, r) ==
  /\ pc = "ready"
  /\ pc' = "returned"
  /\ ret' = [op |-> op, args |-> args, threw |-> r.threw, error |-> r.error,
             value |-> r.value, result |-> NoResult, list |-> <<>>]
  /\ other' = r.checker
  /\ UNCHANGED <<user, permissions, roles, permissionCache, roleCache, guardCache>>
  /\ UNCHANGED appVars

OtherHasPermission ==
  \E n \in PermissionQueryNames :
    OtherCall("other.hasPermission", [name |-> n], hasPermission(other, n))

OtherHasRole ==
  \E n \in RoleQueryNames : OtherCall("other.hasRole", [name |-> n], hasRole(other, n))

OtherHasPermissionByGuard ==
  \E n \in GuardQueryNames :
    OtherCall("other.hasPermissionByGuard", [name |-> n], hasPermissionByGuard(other, n))

OtherClearCache == OtherCall("other.clearCache", NoArgs, clearCache(other))

NextTwo ==
  \/ CallHasPermission
  \/ CallHasRole
  \/ CallHasPermissionByGuard
  \/ CallClearCache
  \/ OtherHasPermission
  \/ OtherHasRole
  \/ OtherHasPermissionByGuard
  \/ OtherClearCache
  \/ Return

SpecTwo == InitTwo /\ [][NextTwo]_vars

-----------------------------------------------------------------------------
(* AxiosAdapter: the interceptors and the token refresh *)

\* handleRequest: the header is set from the access-token cookie, if any
handleRequest(jar, config) ==
  IF jar.access # NoToken THEN [config EXCEPT !.Authorization = jar.access] ELSE config

\* this.instance(config): the request interceptor runs and the request is sent
Send(jar, config) ==
  [handleRequest(jar, config) EXCEPT !.state = "inflight", !.sent = @ + 1]

\* Entries of the queue of adapter a
Queued(a) == {failedQueue[a][i] : i \in 1..Len(failedQueue[a])}

InitHttp ==
  /\ instances = {}
  /\ isRefreshing = [a \in Adapters |-> FALSE]
  /\ failedQueue = [a \in Adapters |-> <<>>]
  /\ requests = [r \in Requests |-> NewRequest]
  /\ cookies \in [access : Tokens \cup {NoToken}, refresh : BOOLEAN]
  /\ location = "/"
  /\ UiInit
  /\ LibInit
  /\ user = NullValue
  /\ permissions = constructor(NullValue).permissions
  /\ roles = constructor(NullValue).roles
  /\ permissionCache = constructor(NullValue).permissionCache
  /\ roleCache = constructor(NullValue).roleCache
  /\ guardCache = constructor(NullValue).guardCache
  /\ pc = "ready"
  /\ ret = NoCall
  /\ other = constructor(NullValue)

\* apiInstanceOriginal: a new AxiosAdapter is constructed for the call and the
\* request is issued on it
apiInstance(r) ==
  /\ NextRequest(r)
  /\ \E a \in Adapters \ instances :
       /\ \A b \in Adapters \ instances : a <= b
       /\ instances' = instances \cup {a}
       /\ requests' = [requests EXCEPT
                         ![r] = Send(cookies, [@ EXCEPT !.adapter = a, !.via = "apiInstance"])]
  /\ UNCHANGED <<isRefreshing, failedQueue, cookies, location>>
  /\ UNCHANGED <<checkerVars, uiVars, libVars>>

\* new AxiosAdapter(baseURL) by a caller that keeps the instance
NewAxiosAdapter ==
  /\ \E a \in Adapters \ instances :
       /\ \A b \in Adapters \ instances : a <= b
       /\ instances' = instances \cup {a}
  /\ UNCHANGED <<isRefreshing, failedQueue, requests, cookies, location>>
  /\ UNCHANGED <<checkerVars, uiVars, libVars>>

\* get / post / put / patch / delete on an adapter the caller keeps
AdapterRequest(a, r) ==
  /\ a \in instances
  /\ \A q \in Requests : requests[q].adapter = a => requests[q].via = "adapter"
  /\ NextRequest(r)
  /\ requests' = [requests EXCEPT
                    ![r] = Send(cookies, [@ EXCEPT !.adapter = a, !.via = "adapter"])]
  /\ UNCHANGED <<instances, isRefreshing, failedQueue, cookies, location>>
  /\ UNCHANGED <<checkerVars, uiVars, libVars>>

\* handleResponseSuccess: the response is handed to the caller
ResponseSuccess(r) ==
  /\ requests[r].state = "inflight"
  /\ requests' = [requests EXCEPT ![r].state = "resolved", ![r].outcome = "response"]
  /\ UNCHANGED <<instances, isRefreshing, failedQueue, cookies, location>>
  /\ UNCHANGED <<checkerVars, uiVars, libVars>>

\* Variant: the request is not marked before it is queued or starts a refresh
ResponseError_NoRetryMark(r, status) ==
  /\ requests[r].state = "inflight"
  /\ LET a == requests[r].adapter IN
     IF status = 401 /\ ~requests[r].retry /\ cookies.refresh
     THEN IF isRefreshing[a]
          THEN /\ failedQueue' = [failedQueue EXCEPT ![a] = Append(@, r)]
               /\ requests' = [requests EXCEPT ![r].state = "queued"]
               /\ UNCHANGED isRefreshing
          ELSE /\ isRefreshing' = [isRefreshing EXCEPT ![a] = TRUE]
               /\ requests' = [requests EXCEPT ![r].state = "refreshing"]
               /\ UNCHANGED failedQueue
     ELSE /\ requests' = [requests EXCEPT ![r].state = "rejected",
                                          ![r].outcome = IF status = 401 THEN "401" ELSE "error"]
          /\ UNCHANGED <<isRefreshing, failedQueue>>
  /\ UNCHANGED <<instances, cookies, location>>
  /\ UNCHANGED <<checkerVars, uiVars, libVars>>

\* handleResponseError, up to the await of the refresh-token request
ResponseError(r, status) ==
  /\ requests[r].state = "inflight"
  /\ LET a == requests[r].adapter IN
     IF status = 401 /\ ~requests[r].retry /\ cookies.refresh
     THEN IF isRefreshing[a]
          THEN /\ failedQueue' = [failedQueue EXCEPT ![a] = Append(@, r)]
               /\ requests' = [requests EXCEPT ![r].retry = TRUE, ![r].state = "queued"]
               /\ UNCHANGED isRefreshing
          ELSE /\ isRefreshing' = [isRefreshing EXCEPT ![a] = TRUE]
               /\ requests' = [requests EXCEPT ![r].retry = TRUE, ![r].state = "refreshing"]
               /\ UNCHANGED failedQueue
     ELSE /\ requests' = [requests EXCEPT ![r].state = "rejected",
                                          ![r].outcome = IF status = 401 THEN "401" ELSE "error"]
          /\ UNCHANGED <<isRefreshing, failedQueue>>
  /\ UNCHANGED <<instances, cookies, location>>
  /\ UNCHANGED <<checkerVars, uiVars, libVars>>

\* Variant: the queue is emptied without its requests being sent again
RefreshResolves_DropsQueue(r, newAccessToken) ==
  /\ requests[r].state = "refreshing"
  /\ LET a == requests[r].adapter
         jar == [cookies EXCEPT !.access = newAccessToken] IN
     /\ cookies' = jar
     /\ requests' = [requests EXCEPT
                       ![r] = Send(jar, [@ EXCEPT !.Authorization = newAccessToken])]
     /\ failedQueue' = [failedQueue EXCEPT ![a] = <<>>]
     /\ isRefreshing' = [isRefreshing EXCEPT ![a] = FALSE]
  /\ UNCHANGED <<instances, location>>
  /\ UNCHANGED <<checkerVars, uiVars, libVars>>

\* handleResponseError, the refresh-token request answered with a new token
RefreshResolves(r, newAccessToken) ==
  /\ requests[r].state = "refreshing"
  /\ LET a == requests[r].adapter
         jar == [cookies EXCEPT !.access = newAccessToken] IN
     /\ cookies' = jar
     /\ requests' = [q \in Requests |->
                       IF q \in Queued(a) \/ q = r
                       THEN Send(jar, [requests[q] EXCEPT !.Authorization = newAccessToken])
                       ELSE requests[q]]
     /\ failedQueue' = [failedQueue EXCEPT ![a] = <<>>]
     /\ isRefreshing' = [isRefreshing EXCEPT ![a] = FALSE]
  /\ UNCHANGED <<instances, location>>
  /\ UNCHANGED <<checkerVars, uiVars, libVars>>

\* Variant: the refresh-token cookie is left in place
RefreshRejects_KeepsRefreshCookie(r) ==
  /\ requests[r].state = "refreshing"
  /\ LET a == requests[r].adapter IN
     /\ requests' = [q \in Requests |->
                       IF q \in Queued(a) \/ q = r
                       THEN [requests[q] EXCEPT !.state = "rejected", !.outcome = "refreshError"]
                       ELSE requests[q]]
     /\ failedQueue' = [failedQueue EXCEPT ![a] = <<>>]
     /\ isRefreshing' = [isRefreshing EXCEPT ![a] = FALSE]
  /\ cookies' = [cookies EXCEPT !.access = NoToken]
  /\ location' = "/login"
  /\ UNCHANGED instances
  /\ UNCHANGED <<checkerVars, uiVars, libVars>>

\* handleResponseError, the refresh-token request failed
RefreshRejects(r) ==
  /\ requests[r].state = "refreshing"
  /\ LET a == requests[r].adapter IN
     /\ requests' = [q \in Requests |->
                       IF q \in Queued(a) \/ q = r
                       THEN [requests[q] EXCEPT !.state = "rejected", !.outcome = "refreshError"]
                       ELSE requests[q]]
     /\ failedQueue' = [failedQueue EXCEPT ![a] = <<>>]
     /\ isRefreshing' = [isRefreshing EXCEPT ![a] = FALSE]
  /\ cookies' = [access |-> NoToken, refresh |-> FALSE]
  /\ location' = "/login"
  /\ UNCHANGED instances
  /\ UNCHANGED <<checkerVars, uiVars, libVars>>

\* The user signs in again on the login page: the browser holds both cookies anew
Login(token) ==
  /\ location = "/login"
  /\ ~cookies.refresh
  /\ cookies' = [access |-> token, refresh |-> TRUE]
  /\ location' = "/"
  /\ UNCHANGED <<instances, isRefreshing, failedQueue, requests>>
  /\ UNCHANGED <<checkerVars, uiVars, libVars>>

CallApiInstance == \E r \in Requests : apiInstance(r)
CallAdapterRequest == \E a \in Adapters, r \in Requests : AdapterRequest(a, r)
OnResponseSuccess == \E r \in Requests : ResponseSuccess(r)
OnResponseError == \E r \in Requests, status \in {401, 500} : ResponseError(r, status)
OnRefreshResolves == \E r \in Requests, t \in Tokens : RefreshResolves(r, t)
OnRefreshRejects == \E r \in Requests : RefreshRejects(r)
OnLogin == \E t \in Tokens : Login(t)

NextHttp ==
  \/ CallApiInstance
  \/ NewAxiosAdapter
  \/ CallAdapterRequest
  \/ OnResponseSuccess
  \/ OnResponseError
  \/ OnRefreshResolves
  \/ OnRefreshRejects
  \/ OnLogin

SpecHttp == InitHttp /\ [][NextHttp]_vars

-----------------------------------------------------------------------------
(* What the user record says, read directly from the lists *)

WellFormed(list) == \A i \in 1..Len(list) : list[i] # NullValue

HoldsPermission(n) ==
  \E i \in 1..Len(permissions) : permissions[i] # NullValue /\ permissions[i].name = n

HoldsRole(n) ==
  \E i \in 1..Len(roles) : roles[i] # NullValue /\ roles[i].name = n

HoldsGuard(g) ==
  \E i \in 1..Len(permissions) : permissions[i] # NullValue /\ permissions[i].guardName = g

ReturnedFrom(op) == pc = "returned" /\ ret.op = op

\* A checkPermissions call on a typed options object by a user whose lists
\* hold only typed entries
TypedCheck ==
  /\ ReturnedFrom("checkPermissions")
  /\ ret.args # NullValue
  /\ WellFormed(permissions) /\ WellFormed(roles)

RequiredPermissions == OptionOr(ret.args, "requiredPermissions", <<>>)
RequiredRoles == OptionOr(ret.args, "requiredRoles", <<>>)
RequiredGuardNames == OptionOr(ret.args, "requiredGuardNames", <<>>)
RequireAll == OptionOr(ret.args, "requireAll", FALSE)

-----------------------------------------------------------------------------
(* C1: for every permission list and every queried name n, hasPermission(n)
   answers true exactly when some permission in the list is named n,
   whatever was queried before. *)
C1_HasPermissionIffHeld ==
  (ReturnedFrom("hasPermission") /\ WellFormed(permissions))
    => /\ ~ret.threw
       /\ Truthy(ret.value) <=> HoldsPermission(ret.args.name)

(* C2: for an authenticated user, checkPermissions grants exactly when
   every category (permissions, roles, guard names) with a non-empty required
   list is satisfied on its own: by all of its required names when requireAll
   is true, by any of them when it is false. *)
C2_GrantedIffEveryCategorySatisfied ==
  (TypedCheck /\ user # NullValue)
    => LET Satisfied(required, Holds(_)) ==
             \/ Len(required) = 0
             \/ IF RequireAll
                THEN \A i \in 1..Len(required) : Holds(required[i])
                ELSE \E i \in 1..Len(required) : Holds(required[i])
       IN ret.result.hasPermission <=>
            /\ Satisfied(RequiredPermissions, HoldsPermission)
            /\ Satisfied(RequiredRoles, HoldsRole)
            /\ Satisfied(RequiredGuardNames, HoldsGuard)

(* C3: with requireAll false and both required permissions and required roles
   given, checkPermissions grants when the user holds one of the required
   permissions or one of the required roles. *)
C3_AnyPermissionOrRoleGrants ==
  (/\ TypedCheck /\ user # NullValue
   /\ ~RequireAll
   /\ Len(RequiredPermissions) > 0 /\ Len(RequiredRoles) > 0
   /\ Len(RequiredGuardNames) = 0
   /\ \/ \E i \in 1..Len(RequiredPermissions) : HoldsPermission(RequiredPermissions[i])
      \/ \E i \in 1..Len(RequiredRoles) : HoldsRole(RequiredRoles[i]))
    => ret.result.hasPermission

\* The answer a caller gets from hasPermission(n) on the instance as it is now
AnswersPermission(n) == Truthy(hasPermission(This, n).value)

\* The elements of list that fail Test, in the order of list
Failing(list, Test(_)) == SelectSeq(list, LAMBDA x : ~Test(x))

PermissionCategoryPassed ==
  \/ Len(RequiredPermissions) = 0
  \/ IF RequireAll
     THEN \A i \in 1..Len(RequiredPermissions) : AnswersPermission(RequiredPermissions[i])
     ELSE \E i \in 1..Len(RequiredPermissions) : AnswersPermission(RequiredPermissions[i])

AnswersGuard(g) == Truthy(hasPermissionByGuard(This, g).value)

GuardCategoryPassed ==
  \/ Len(RequiredGuardNames) = 0
  \/ IF RequireAll
     THEN \A i \in 1..Len(RequiredGuardNames) : AnswersGuard(RequiredGuardNames[i])
     ELSE \E i \in 1..Len(RequiredGuardNames) : AnswersGuard(RequiredGuardNames[i])

\* missingPermissions without the guard names a failed guard category appends
MissingPermissionNames ==
  IF GuardCategoryPassed THEN ret.result.missingPermissions
  ELSE SubSeq(ret.result.missingPermissions, 1,
              Len(ret.result.missingPermissions)
                - Len(Failing(RequiredGuardNames, AnswersGuard)))

(* C4: in the result of checkPermissions for an authenticated user, the
   permission-name part of missingPermissions is empty when the permissions
   category passed, and otherwise is the required permission names, in required
   order, that individually fail hasPermission (holding only user.read,
   required [user.read, user.create]: [] with requireAll false,
   [user.create] with requireAll true). *)
C4_MissingPermissionNames ==
  (TypedCheck /\ user # NullValue)
    => /\ ret.result.error = "none"
       /\ MissingPermissionNames =
            IF PermissionCategoryPassed THEN <<>>
            ELSE Failing(RequiredPermissions, AnswersPermission)
       /\ (/\ permissions = <<[name |-> "user.read", guardName |-> "web"]>>
           /\ RequiredPermissions = <<"user.read", "user.create">>
           /\ Len(RequiredGuardNames) = 0)
            => /\ ret.result.missingPermissions =
                    IF RequireAll THEN <<"user.create">> ELSE <<>>
               /\ Len(RequiredRoles) = 0 => (ret.result.hasPermission <=> ~RequireAll)

C4_Witness ==
  /\ TypedCheck
  /\ permissions = <<[name |-> "user.read", guardName |-> "web"]>>
  /\ roles = <<[name |-> "admin"]>>
  /\ RequiredPermissions = <<"user.read", "user.create">>
  /\ RequireAll
  /\ ret.result.missingPermissions = <<"user.create">>
  /\ ~ret.result.hasPermission

NegativeResult(e) ==
  [hasPermission |-> FALSE, missingPermissions |-> <<>>, missingRoles |-> <<>>,
   userPermissions |-> <<>>, userRoles |-> <<>>, error |-> e]

(* C5: checkPermissions on a checker built from a null user returns, for
   every query, hasPermission false, empty missingPermissions, missingRoles,
   userPermissions and userRoles, and an AuthenticationError in the error
   field; it does not throw. *)
C5_NullUserCheckIsNegative ==
  (ReturnedFrom("checkPermissions") /\ ret.args # NullValue /\ user = NullValue)
    => /\ ~ret.threw
       /\ ret.result = NegativeResult("AuthenticationError")

C5_Witness ==
  /\ ReturnedFrom("checkPermissions")
  /\ user = NullValue
  /\ ret.args = [requiredRoles |-> <<"admin">>]
  /\ ret.result.error = "AuthenticationError"

(* C6: checkPermissions never throws: for every user record, malformed list
   entries included, and every options argument, an error raised during the
   evaluation is caught and the call returns hasPermission false with empty
   name lists and the error in the error field. *)
C6_CheckNeverThrows ==
  ReturnedFrom("checkPermissions")
    => /\ ~ret.threw
       /\ ret.result.error # "none" => ret.result = NegativeResult(ret.result.error)
       /\ (~WellFormed(permissions) \/ ~WellFormed(roles) \/ ret.args = NullValue)
            => ret.result.error = "TypeError"

C6_Witness ==
  /\ ReturnedFrom("checkPermissions")
  /\ user # NullValue
  /\ ~WellFormed(permissions)
  /\ ret.args # NullValue
  /\ Len(RequiredPermissions) > 0
  /\ ret.result = NegativeResult("TypeError")

ListQueries ==
  {"hasAnyPermission", "hasAllPermissions", "hasAnyRole", "hasAllRoles",
   "hasAnyGuard", "hasAllGuards"}

HasQueries == {"hasPermission", "hasRole", "hasPermissionByGuard"} \cup ListQueries

(* C7: on a checker built from a null user, isAuthenticated() is false and
   every has* query returns false for every argument, empty lists included,
   without throwing. *)
C7_NullUserEveryQueryFalse ==
  (pc = "returned" /\ user = NullValue /\ ret.op \in HasQueries \cup {"isAuthenticated"})
    => ~ret.threw /\ ret.value = "false"

(* C8: for every user, hasAnyPermission([]) is false and
   hasAllPermissions([]) is true, and likewise for hasAnyRole / hasAllRoles
   and hasAnyGuard / hasAllGuards. *)
C8_EmptyListConventions ==
  (pc = "returned" /\ ret.op \in ListQueries /\ ret.args.names = <<>>)
    => /\ ~ret.threw
       /\ ret.op \in {"hasAnyPermission", "hasAnyRole", "hasAnyGuard"} => ret.value = "false"
       /\ ret.op \in {"hasAllPermissions", "hasAllRoles", "hasAllGuards"} => ret.value = "true"

C8_Witness ==
  /\ ReturnedFrom("hasAllPermissions")
  /\ ret.args.names = <<>>
  /\ ret.value = "true"
  /\ user # NullValue /\ ~WellFormed(permissions)

(* C9: checkPermissions with requiredPermissions, requiredRoles and
   requiredGuardNames all empty returns hasPermission true for every
   authenticated user, whatever the user holds and for either requireAll, and
   hasPermission false for a null user. *)
C9_NothingRequired ==
  (/\ TypedCheck
   /\ Len(RequiredPermissions) = 0 /\ Len(RequiredRoles) = 0 /\ Len(RequiredGuardNames) = 0)
    => ret.result.hasPermission <=> user # NullValue

C9_Witness ==
  /\ TypedCheck
  /\ Len(RequiredPermissions) = 0 /\ Len(RequiredRoles) = 0 /\ Len(RequiredGuardNames) = 0
  /\ RequireAll
  /\ Len(permissions) > 0 /\ Len(roles) > 0
  /\ ret.result.hasPermission

(* C10: for every role list and every queried name n, hasRole(n) answers
   true exactly when some role in the list is named n, whatever was queried
   before. *)
C10_HasRoleIffHeld ==
  (ReturnedFrom("hasRole") /\ WellFormed(roles))
    => /\ ~ret.threw
       /\ Truthy(ret.value) <=> HoldsRole(ret.args.name)

(* C11: for every permission list and every queried guard name g,
   hasPermissionByGuard(g) answers true exactly when some permission in the
   list has guardName g; the permission-name cache plays no part in the
   answer. *)
C11_HasGuardIffHeld ==
  (ReturnedFrom("hasPermissionByGuard") /\ WellFormed(permissions))
    => /\ ~ret.threw
       /\ Truthy(ret.value) <=> HoldsGuard(ret.args.name)
       /\ \A cache \in [PermissionQueryNames -> {Absent, "true", "false"}] :
            hasPermissionByGuard([This EXCEPT !.permissionCache = cache],
                                 ret.args.name).value
              = hasPermissionByGuard(This, ret.args.name).value

Range(list) == {list[i] : i \in 1..Len(list)}

(* C12: for every list of names, hasAnyPermission is the logical OR and
   hasAllPermissions the logical AND of hasPermission over the elements; on a
   one-element list both agree with hasPermission of that element, and lists
   with the same elements, in any order and with any repetition, get the same
   answers. *)
C12_AnyIsOrAllIsAnd ==
  WellFormed(permissions)
    => /\ ReturnedFrom("hasAnyPermission")
            => /\ ~ret.threw
               /\ ret.value = "true"
                    <=> \E i \in 1..Len(ret.args.names) : AnswersPermission(ret.args.names[i])
               /\ Len(ret.args.names) = 1
                    => ret.value = hasPermission(This, ret.args.names[1]).value
       /\ ReturnedFrom("hasAllPermissions")
            => /\ ~ret.threw
               /\ ret.value = "true"
                    <=> \A i \in 1..Len(ret.args.names) : AnswersPermission(ret.args.names[i])
               /\ Len(ret.args.names) = 1
                    => ret.value = hasPermission(This, ret.args.names[1]).value
       /\ pc = "ready"
            => \A ns, ms \in PermissionNameLists :
                 Range(ms) = Range(ns)
                   => /\ hasAnyPermission(This, ms).value = hasAnyPermission(This, ns).value
                      /\ hasAllPermissions(This, ms).value = hasAllPermissions(This, ns).value

(* C13: when the guard-names category of checkPermissions fails, the
   required guard names that individually fail hasPermissionByGuard are
   appended to missingPermissions after the missing permission names, and
   nothing is added to missingRoles; a guard category that passes or is empty
   contributes no entries. *)
C13_MissingGuardsAppended ==
  (TypedCheck /\ user # NullValue)
    => /\ ret.result.missingPermissions =
            (IF PermissionCategoryPassed THEN <<>>
             ELSE Failing(RequiredPermissions, AnswersPermission))
            \o (IF GuardCategoryPassed THEN <<>>
                ELSE Failing(RequiredGuardNames, AnswersGuard))
       /\ Range(ret.result.missingRoles) \subseteq Range(RequiredRoles)
       /\ Len(ret.result.missingRoles) <= Len(RequiredRoles)

C13_Witness ==
  /\ TypedCheck /\ user # NullValue
  /\ RequiredPermissions = <<"user.read">>
  /\ RequiredGuardNames = <<"web">>
  /\ ret.result.missingPermissions = <<"user.read", "web">>
  /\ ret.result.missingRoles = <<>>

AnswersRole(n) == Truthy(hasRole(This, n).value)

RoleCategoryPassed ==
  \/ Len(RequiredRoles) = 0
  \/ IF RequireAll
     THEN \A i \in 1..Len(RequiredRoles) : AnswersRole(RequiredRoles[i])
     ELSE \E i \in 1..Len(RequiredRoles) : AnswersRole(RequiredRoles[i])

(* C14: in the result of checkPermissions for an authenticated user,
   missingRoles is empty when the roles category passed or was empty, and
   otherwise is the required role names, in required order, that individually
   fail hasRole; missingRoles and missingPermissions are both empty whenever
   hasPermission is true. *)
C14_MissingRoles ==
  (TypedCheck /\ user # NullValue)
    => /\ ret.result.missingRoles =
            IF RoleCategoryPassed THEN <<>> ELSE Failing(RequiredRoles, AnswersRole)
       /\ ret.result.hasPermission
            => ret.result.missingRoles = <<>> /\ ret.result.missingPermissions = <<>>

C14_Witness ==
  /\ TypedCheck /\ user # NullValue
  /\ RequiredRoles = <<"manager", "admin">>
  /\ RequireAll
  /\ HoldsRole("admin")
  /\ ret.result.missingRoles = <<"manager">>
  /\ ~ret.result.hasPermission

Fresh ==
  /\ permissionCache = EmptyCache(PermissionQueryNames)
  /\ roleCache = EmptyCache(RoleQueryNames)
  /\ guardCache = EmptyCache(GuardQueryNames)

(* C16: on a checker whose caches hold no entry, the caches contribute no
   answer for any key, and for every queried string, the names of
   Object.prototype members included, hasPermission, hasRole and
   hasPermissionByGuard return a boolean that is determined by the user's
   lists alone. *)
C16_AnyStringIsLegalKey ==
  (Fresh /\ pc = "ready" /\ WellFormed(permissions) /\ WellFormed(roles))
    => /\ \A n \in PermissionQueryNames :
            /\ CacheGet(permissionCache, n) = "undefined"
            /\ hasPermission(This, n).value = (IF HoldsPermission(n) THEN "true" ELSE "false")
       /\ \A n \in RoleQueryNames :
            /\ CacheGet(roleCache, n) = "undefined"
            /\ hasRole(This, n).value = (IF HoldsRole(n) THEN "true" ELSE "false")
       /\ \A n \in GuardQueryNames :
            /\ CacheGet(guardCache, n) = "undefined"
            /\ hasPermissionByGuard(This, n).value = (IF HoldsGuard(n) THEN "true" ELSE "false")

(* C17: in every state the instance can reach, whatever queries,
   checkPermissions and clearCache calls came before, hasPermission(n) has the
   outcome it has on a newly constructed checker for the same user, and when
   the entry for n is present the answer is that entry and the call leaves the
   instance untouched. *)
C17_MemoizationUnobservable ==
  \A n \in PermissionQueryNames :
    LET now == hasPermission(This, n)
        first == hasPermission(constructor(user), n) IN
    /\ now.threw = first.threw
    /\ now.value = first.value
    /\ now.error = first.error
    /\ permissionCache[n] # Absent
         => now.value = permissionCache[n] /\ now.checker = This

C17_Witness ==
  /\ ReturnedFrom("hasPermission")
  /\ ret.args.name = "user.read"
  /\ ret.value = "true"
  /\ permissionCache["user.read"] = "true"
  /\ permissionCache["user.create"] = "false"
  /\ roleCache["admin"] # Absent

EntriesKept(before, after) ==
  \A k \in DOMAIN before : before[k] # Absent => after[k] = before[k]

(* C18 as stated: once a cache entry exists it is never removed and never
   changes for the life of the instance (no operation invalidates a cache). *)
C18_CachesAppendOnly ==
  [][/\ EntriesKept(permissionCache, permissionCache')
     /\ EntriesKept(roleCache, roleCache')
     /\ EntriesKept(guardCache, guardCache')]_vars

(* C18 amended: clearCache() is the instance's cache invalidation operation
   and empties all three caches; every other operation leaves existing
   entries in place with their values, and an entry present for a key always
   holds the value a scan of the user's list gives for that key. *)
C18_CachesKeptUntilClearCache ==
  /\ [][IF pc = "ready" /\ ret'.op = "clearCache"
        THEN /\ permissionCache' = EmptyCache(PermissionQueryNames)
             /\ roleCache' = EmptyCache(RoleQueryNames)
             /\ guardCache' = EmptyCache(GuardQueryNames)
        ELSE /\ EntriesKept(permissionCache, permissionCache')
             /\ EntriesKept(roleCache, roleCache')
             /\ EntriesKept(guardCache, guardCache')]_vars
  /\ [](/\ \A k \in PermissionQueryNames : permissionCache[k] # Absent
             => permissionCache[k] = SomeEntry(permissions, "name", k)
        /\ \A k \in RoleQueryNames : roleCache[k] # Absent
             => roleCache[k] = SomeEntry(roles, "name", k)
        /\ \A k \in GuardQueryNames : guardCache[k] # Absent
             => guardCache[k] = SomeEntry(permissions, "guardName", k))

C18_Witness ==
  /\ ReturnedFrom("clearCache")
  /\ Fresh
  /\ Len(permissions) > 0
  /\ Len(roles) > 0

(* C19: no operation of the checker changes the user record or the
   permission and role lists it holds, and getUserPermissions and
   getUserRoles return the held lists, same elements in the same order. *)
C19_UserNeverMutated ==
  /\ [][user' = user /\ permissions' = permissions /\ roles' = roles]_vars
  /\ [](/\ permissions = constructor(user).permissions
        /\ roles = constructor(user).roles
        /\ ReturnedFrom("getUserPermissions") => ~ret.threw /\ ret.list = permissions
        /\ ReturnedFrom("getUserRoles") => ~ret.threw /\ ret.list = roles)

C19_Witness ==
  /\ ReturnedFrom("getUserPermissions")
  /\ Len(permissions) = 2
  /\ permissions[1] # permissions[2]
  /\ ret.list = permissions
  /\ ~Fresh

(* C15: no has* query ever throws: a user record with a missing permissions
   or roles list is treated as having an empty one, and a list with a
   malformed entry is scanned with that entry counting as a non-match. *)
C15_HasQueriesNeverThrow ==
  /\ "permissions" \notin DOMAIN user => permissions = <<>>
  /\ "roles" \notin DOMAIN user => roles = <<>>
  /\ (pc = "returned" /\ ret.op \in HasQueries) => ~ret.threw

OtherOps ==
  {"other.hasPermission", "other.hasRole", "other.hasPermissionByGuard", "other.clearCache"}

\* What the instance c answers to each single query
Answers(c) ==
  [permission |-> [n \in PermissionQueryNames |->
                     <<hasPermission(c, n).threw, hasPermission(c, n).value>>],
   role |-> [n \in RoleQueryNames |-> <<hasRole(c, n).threw, hasRole(c, n).value>>],
   guard |-> [n \in GuardQueryNames |->
                <<hasPermissionByGuard(c, n).threw, hasPermissionByGuard(c, n).value>>]]

(* C20: with two checkers built over different user snapshots, a query or
   clearCache call on one instance leaves the other instance, its caches
   included, exactly as it was, and under every interleaving of such calls
   each instance answers every query as a newly constructed checker for its
   own user does. *)
C20_InstancesDoNotInteract ==
  /\ [][IF ret'.op \in OtherOps
        THEN UNCHANGED <<user, permissions, roles, permissionCache, roleCache, guardCache>>
        ELSE other' = other]_vars
  /\ [](/\ user # other.user
        /\ Answers(This) = Answers(constructor(user))
        /\ Answers(other) = Answers(constructor(other.user)))

C20_Witness ==
  /\ pc = "returned"
  /\ ret.op = "other.hasPermission"
  /\ ret.args.name = "user.read"
  /\ ret.value = "false"
  /\ permissionCache["user.read"] = "true"
  /\ other.permissionCache["user.read"] = "false"
  /\ roleCache["admin"] = "true"
  /\ other.roleCache["admin"] = "false"

-----------------------------------------------------------------------------
(* The store and the gating components *)

\* The user records the application puts in the store
StoreUsers ==
  (Snapshots \ {NullValue})
    \cup {[permissions |-> <<NullValue>>, roles |-> <<[name |-> "admin"]>>],
          [permissions |-> <<[name |-> "user.create", guardName |-> "api"]>>,
           roles |-> <<[name |-> "admin"]>>],
          [permissions |-> <<[name |-> "dashboard.read", guardName |-> "web"]>>,
           roles |-> <<[name |-> "manager"]>>]}

\* partialize: only theme and user are saved
partialize(state) == [present |-> TRUE, theme |-> state.theme, user |-> state.user]

\* set(partial) under the persist middleware: the state is merged and saved
Set(state) ==
  /\ view = NoView
  /\ store' = state
  /\ storage' = partialize(state)
  /\ UNCHANGED view
  /\ UNCHANGED <<checkerVars, httpVars, libVars>>

setUser(u) == Set([store EXCEPT !.user = u, !.isAuthenticated = (u # NullValue)])

clearUser == Set([store EXCEPT !.user = NullValue, !.isAuthenticated = FALSE])

toggleTheme == Set([store EXCEPT !.theme = IF @ = "light" THEN "dark" ELSE "light"])

reset == Set(initialState)

\* The page is loaded again: the store is created with initialState and the
\* persist middleware merges the saved entry into it
Rehydrate ==
  /\ view = NoView
  /\ store' = IF storage.present
              THEN [initialState EXCEPT !.theme = storage.theme, !.user = storage.user]
              ELSE initialState
  /\ UNCHANGED <<storage, view>>
  /\ UNCHANGED <<checkerVars, httpVars, libVars>>

CallSetUser == \E u \in StoreUsers \cup {NullValue} : setUser(u)

\* Lists of no name or one name
OneOrNone(names) == {<<>>} \cup {<<n>> : n \in names}

\* The props of the gating components
GateProps ==
  [requiredPermissions : OneOrNone(PermissionQueryNames),
   requiredRoles : OneOrNone(RoleQueryNames),
   requiredGuardNames : OneOrNone(GuardQueryNames),
   requireAll : BOOLEAN,
   showErrorBoundary : BOOLEAN,
   redirectTo : {"/401"}]

\* The options object a component hands to checkPermissions
CheckOptions(props) ==
  [requiredPermissions |-> props.requiredPermissions,
   requiredRoles |-> props.requiredRoles,
   requiredGuardNames |-> props.requiredGuardNames,
   requireAll |-> props.requireAll]

\* Variant: the isAuthenticated flag is not looked at, only the user
PermissionMiddleware_UserOnly(state, props) ==
  LET signedOut == state.user = NullValue
      checkResult ==
        IF signedOut
        THEN [hasPermission |-> FALSE, missingPermissions |-> <<>>, missingRoles |-> <<>>,
              userPermissions |-> <<>>, userRoles |-> <<>>, error |-> "none"]
        ELSE checkPermissions(constructor(state.user), CheckOptions(props)).value
      failed == checkResult.error # "none"
  IN
  IF failed /\ props.showErrorBoundary
  THEN [rendered |-> "error", onError |-> TRUE, onPermissionDenied |-> FALSE]
  ELSE IF signedOut
  THEN [rendered |-> "fallbackComponent", onError |-> failed, onPermissionDenied |-> FALSE]
  ELSE IF ~checkResult.hasPermission
  THEN [rendered |-> "fallbackComponent", onError |-> failed, onPermissionDenied |-> TRUE]
  ELSE [rendered |-> "children", onError |-> failed, onPermissionDenied |-> FALSE]

\* The render of PermissionMiddleware once the effect has stored checkResult
PermissionMiddlewareRender(props, signedOut, checkResult) ==
  IF checkResult.error # "none" /\ props.showErrorBoundary
  THEN [rendered |-> "error", onError |-> TRUE, onPermissionDenied |-> FALSE]
  ELSE IF signedOut
  THEN [rendered |-> "fallbackComponent", onError |-> checkResult.error # "none",
        onPermissionDenied |-> FALSE]
  ELSE IF ~checkResult.hasPermission
  THEN [rendered |-> "fallbackComponent", onError |-> checkResult.error # "none",
        onPermissionDenied |-> TRUE]
  ELSE [rendered |-> "children", onError |-> checkResult.error # "none",
        onPermissionDenied |-> FALSE]

\* PermissionMiddleware: what is rendered and which callbacks are invoked
PermissionMiddleware(state, props) ==
  PermissionMiddlewareRender(
    props,
    ~state.isAuthenticated \/ state.user = NullValue,
    IF ~state.isAuthenticated \/ state.user = NullValue
    THEN [hasPermission |-> FALSE, missingPermissions |-> <<>>, missingRoles |-> <<>>,
          userPermissions |-> <<>>, userRoles |-> <<>>, error |-> "none"]
    ELSE checkPermissions(constructor(state.user), CheckOptions(props)).value)

\* usePermissionCheck: a checker over the store's user, asked once
usePermissionCheck(state, options) ==
  checkPermissions(constructor(state.user), options).value

\* Variant: the effect redirects but the render does not look at isAuthenticated
RouteGuard_RendersSignedOut(state, props, pathname) ==
  LET permissionCheck == usePermissionCheck(state, CheckOptions(props))
      required == \/ Len(props.requiredPermissions) > 0
                  \/ Len(props.requiredRoles) > 0
                  \/ Len(props.requiredGuardNames) > 0
  IN
  [navigate |-> IF ~state.isAuthenticated
                THEN [to |-> "/login", replace |-> TRUE, from |-> pathname]
                ELSE IF required /\ ~permissionCheck.hasPermission
                THEN [to |-> props.redirectTo, replace |-> TRUE, from |-> "none"]
                ELSE NoNavigate,
   rendered |-> IF required /\ ~permissionCheck.hasPermission
                THEN "fallbackComponent"
                ELSE "children"]

\* The effect and the render of RouteGuard, given what usePermissionCheck returned
RouteGuardRender(state, props, pathname, permissionCheck) ==
  LET required == \/ Len(props.requiredPermissions) > 0
                  \/ Len(props.requiredRoles) > 0
                  \/ Len(props.requiredGuardNames) > 0
  IN
  [navigate |-> IF ~state.isAuthenticated
                THEN [to |-> "/login", replace |-> TRUE, from |-> pathname]
                ELSE IF required /\ ~permissionCheck.hasPermission
                THEN [to |-> props.redirectTo, replace |-> TRUE, from |-> "none"]
                ELSE NoNavigate,
   rendered |-> IF ~state.isAuthenticated
                THEN "loading"
                ELSE IF required /\ ~permissionCheck.hasPermission
                THEN "fallbackComponent"
                ELSE "children"]

\* RouteGuard: the navigate call of its effect and what is rendered
RouteGuard(state, props, pathname) ==
  RouteGuardRender(state, props, pathname, usePermissionCheck(state, CheckOptions(props)))

RenderPermissionMiddleware ==
  /\ view = NoView
  /\ \E props \in GateProps :
       \E out \in {PermissionMiddleware(store, props)} :
       view' = [component |-> "PermissionMiddleware", props |-> props, pathname |-> "none",
                rendered |-> out.rendered, navigate |-> NoNavigate,
                onPermissionDenied |-> out.onPermissionDenied, onError |-> out.onError,
                state |-> store]
  /\ UNCHANGED <<store, storage>>
  /\ UNCHANGED <<checkerVars, httpVars, libVars>>

RenderRouteGuard ==
  /\ view = NoView
  /\ \E props \in {p \in GateProps : p.showErrorBoundary}, pathname \in {"/users"} :
       \E out \in {RouteGuard(store, props, pathname)} :
       view' = [component |-> "RouteGuard", props |-> props, pathname |-> pathname,
                rendered |-> out.rendered, navigate |-> out.navigate,
                onPermissionDenied |-> FALSE, onError |-> FALSE,
                state |-> store]
  /\ UNCHANGED <<store, storage>>
  /\ UNCHANGED <<checkerVars, httpVars, libVars>>

\* PERMISSIONS and ROLES members the navigation names
NavigationPermissionNames ==
  {"dashboard.read", "user.read", "user.create", "role.read", "permission.read",
   "report.read", "settings.read"}
NavigationRoleNames == {"admin", "super_admin", "manager"}

\* new PermissionChecker(user) inside a hook of the navigation: the caches
\* take the names the navigation asks about as keys
HookChecker(u) ==
  [constructor(u) EXCEPT
     !.permissionCache = EmptyCache(PermissionQueryNames \cup NavigationPermissionNames),
     !.roleCache = EmptyCache(RoleQueryNames \cup NavigationRoleNames)]

\* The permission hooks of Navigation, each over its own checker
NavigationHooks(state) ==
  [hasDashboardAccess |-> hasPermission(HookChecker(state.user), "dashboard.read"),
   hasUserManagement |->
     hasAnyPermission(HookChecker(state.user), <<"user.create", "user.read">>),
   hasRoleManagement |-> hasPermission(HookChecker(state.user), "role.read"),
   hasPermissionManagement |-> hasPermission(HookChecker(state.user), "permission.read"),
   hasReportAccess |-> hasPermission(HookChecker(state.user), "report.read"),
   hasSettingsAccess |-> hasPermission(HookChecker(state.user), "settings.read"),
   isAdmin |-> hasRole(HookChecker(state.user), "admin"),
   isSuperAdmin |-> hasRole(HookChecker(state.user), "super_admin")]

\* const navigationItems: the requirements of each item, children included
navigationItems ==
  {[label |-> "Home", permissions |-> <<"dashboard.read">>, roles |-> <<>>],
   [label |-> "Dashboard", permissions |-> <<"dashboard.read">>,
    roles |-> <<"admin", "manager">>],
   [label |-> "Users", permissions |-> <<"user.read">>, roles |-> <<"admin">>],
   [label |-> "Roles", permissions |-> <<"role.read">>, roles |-> <<"super_admin">>],
   [label |-> "Permissions", permissions |-> <<"permission.read">>,
    roles |-> <<"super_admin">>],
   [label |-> "Reports", permissions |-> <<"report.read">>,
    roles |-> <<"admin", "manager">>],
   [label |-> "Settings", permissions |-> <<"settings.read">>, roles |-> <<>>],
   [label |-> "Admin", permissions |-> <<>>, roles |-> <<"admin", "super_admin">>],
   [label |-> "Admin Dashboard", permissions |-> <<"dashboard.read">>,
    roles |-> <<"admin">>],
   [label |-> "Analytics", permissions |-> <<"report.read">>, roles |-> <<"admin">>],
   [label |-> "System Settings", permissions |-> <<>>, roles |-> <<"super_admin">>]}

\* switch (permission) of canAccessItem
PermissionCase(hooks, permission) ==
  CASE permission = "dashboard.read" -> Truthy(hooks.hasDashboardAccess.value)
    [] permission \in {"user.read", "user.create"} -> Truthy(hooks.hasUserManagement.value)
    [] permission = "role.read" -> Truthy(hooks.hasRoleManagement.value)
    [] permission = "permission.read" -> Truthy(hooks.hasPermissionManagement.value)
    [] permission = "report.read" -> Truthy(hooks.hasReportAccess.value)
    [] permission = "settings.read" -> Truthy(hooks.hasSettingsAccess.value)
    [] OTHER -> FALSE

\* switch (role) of canAccessItem
RoleCase(hooks, role) ==
  CASE role = "admin" -> Truthy(hooks.isAdmin.value)
    [] role = "super_admin" -> Truthy(hooks.isSuperAdmin.value)
    [] OTHER -> FALSE

\* canAccessItem(item); requireAll is undefined on every configured item
canAccessItem(hooks, item, requireAll) ==
  LET permitted ==
        IF requireAll
        THEN \A i \in 1..Len(item.permissions) : PermissionCase(hooks, item.permissions[i])
        ELSE \E i \in 1..Len(item.permissions) : PermissionCase(hooks, item.permissions[i])
      inRole ==
        IF requireAll
        THEN \A i \in 1..Len(item.roles) : RoleCase(hooks, item.roles[i])
        ELSE \E i \in 1..Len(item.roles) : RoleCase(hooks, item.roles[i])
  IN
  IF Len(item.permissions) > 0 /\ ~permitted THEN FALSE
  ELSE IF Len(item.roles) > 0 /\ ~inRole THEN FALSE
  ELSE TRUE

\* The render of Navigation for one of its items, given what the hooks
\* returned: a hook that throws takes the component down, a signed-out
\* visitor gets null
NavigationRender(state, item, hooks) ==
  IF \E h \in DOMAIN hooks : hooks[h].threw THEN "error"
  ELSE IF ~state.isAuthenticated THEN "nothing"
  ELSE IF canAccessItem(hooks, item, FALSE) THEN "item"
  ELSE "nothing"

Navigation(state, item) == NavigationRender(state, item, NavigationHooks(state))

RenderNavigation ==
  /\ view = NoView
  /\ \E item \in navigationItems :
       \E rendered \in {Navigation(store, item)} :
       view' = [component |-> "Navigation",
                props |-> [requiredPermissions |-> item.permissions,
                           requiredRoles |-> item.roles,
                           requiredGuardNames |-> <<>>,
                           requireAll |-> FALSE,
                           showErrorBoundary |-> TRUE,
                           redirectTo |-> "/401"],
                pathname |-> "none",
                rendered |-> rendered, navigate |-> NoNavigate,
                onPermissionDenied |-> FALSE, onError |-> FALSE,
                state |-> store]
  /\ UNCHANGED <<store, storage>>
  /\ UNCHANGED <<checkerVars, httpVars, libVars>>

\* The rendered component is taken off the page
Unmount ==
  /\ view # NoView
  /\ view' = NoView
  /\ UNCHANGED <<store, storage>>
  /\ UNCHANGED <<checkerVars, httpVars, libVars>>

InitUi ==
  /\ UiInit
  /\ LibInit
  /\ HttpInit
  /\ user = NullValue
  /\ permissions = constructor(NullValue).permissions
  /\ roles = constructor(NullValue).roles
  /\ permissionCache = constructor(NullValue).permissionCache
  /\ roleCache = constructor(NullValue).roleCache
  /\ guardCache = constructor(NullValue).guardCache
  /\ pc = "ready"
  /\ ret = NoCall
  /\ other = constructor(NullValue)

NextUi ==
  \/ CallSetUser
  \/ clearUser
  \/ toggleTheme
  \/ reset
  \/ Rehydrate
  \/ RenderPermissionMiddleware
  \/ RenderNavigation
  \/ Unmount

SpecUi == InitUi /\ [][NextUi]_vars

\* The store with a guarded route on the page
NextRoute ==
  \/ CallSetUser
  \/ clearUser
  \/ toggleTheme
  \/ reset
  \/ Rehydrate
  \/ RenderRouteGuard
  \/ Unmount

SpecRoute == InitUi /\ [][NextRoute]_vars

-----------------------------------------------------------------------------
(* The route configuration and its helpers *)

\* A route without children
Leaf(path) == [path |-> path, children |-> <<>>]

\* export const routesConfig: no configured route carries permissions, roles,
\* guards, requireAll or isPublic
routesConfig ==
  <<[path |-> "/", children |-> <<Leaf("login"), Leaf("register")>>],
    [path |-> "/", children |-> <<Leaf("home"), Leaf("dashboard"), Leaf("users"),
                                  Leaf("settings")>>],
    Leaf("/401"),
    Leaf("/404"),
    Leaf("*")>>

\* The paths callers ask about: the configured ones, the ROUTE_PATHS form of
\* one of them, and one that is configured nowhere
Paths ==
  {"/", "login", "register", "home", "dashboard", "users", "settings", "/401", "/404",
   "*", "/users", "/reports"}

\* undefined
NoRoute == [undefined |-> TRUE]

\* route.field where the configuration may leave the field out
RouteField(route, field, default) ==
  IF field \in DOMAIN route THEN route[field] ELSE default

\* findRoute: the first route with the path, parents before their children
RECURSIVE findRoute(_, _)
findRoute(routes, targetPath) ==
  IF routes = <<>> THEN NoRoute
  ELSE IF Head(routes).path = targetPath THEN Head(routes)
  ELSE IF findRoute(Head(routes).children, targetPath) # NoRoute
  THEN findRoute(Head(routes).children, targetPath)
  ELSE findRoute(Tail(routes), targetPath)

getRouteByPath(path) == findRoute(routesConfig, path)

\* names.includes(name)
Includes(names, name) == \E i \in 1..Len(names) : names[i] = name

\* required.every / required.some over names.includes
HoldsRequired(required, names, requireAll) ==
  IF requireAll
  THEN \A i \in 1..Len(required) : Includes(names, required[i])
  ELSE \E i \in 1..Len(required) : Includes(names, required[i])

\* Variant: a path that matches no route is open to everybody
canAccessRoute_UnknownPathOpen(path, userPermissions, userRoles) ==
  IF getRouteByPath(path) = NoRoute THEN TRUE
  ELSE IF RouteField(getRouteByPath(path), "isPublic", FALSE) THEN TRUE
  ELSE IF /\ Len(RouteField(getRouteByPath(path), "permissions", <<>>)) > 0
          /\ ~HoldsRequired(RouteField(getRouteByPath(path), "permissions", <<>>),
                            userPermissions,
                            RouteField(getRouteByPath(path), "requireAll", FALSE))
  THEN FALSE
  ELSE IF /\ Len(RouteField(getRouteByPath(path), "roles", <<>>)) > 0
          /\ ~HoldsRequired(RouteField(getRouteByPath(path), "roles", <<>>),
                            userRoles,
                            RouteField(getRouteByPath(path), "requireAll", FALSE))
  THEN FALSE
  ELSE TRUE

canAccessRoute(path, userPermissions, userRoles) ==
  IF getRouteByPath(path) = NoRoute THEN FALSE
  ELSE IF RouteField(getRouteByPath(path), "isPublic", FALSE) THEN TRUE
  ELSE IF /\ Len(RouteField(getRouteByPath(path), "permissions", <<>>)) > 0
          /\ ~HoldsRequired(RouteField(getRouteByPath(path), "permissions", <<>>),
                            userPermissions,
                            RouteField(getRouteByPath(path), "requireAll", FALSE))
  THEN FALSE
  ELSE IF /\ Len(RouteField(getRouteByPath(path), "roles", <<>>)) > 0
          /\ ~HoldsRequired(RouteField(getRouteByPath(path), "roles", <<>>),
                            userRoles,
                            RouteField(getRouteByPath(path), "requireAll", FALSE))
  THEN FALSE
  ELSE TRUE

\* checkRouteAccess: each route is pushed if its path is accessible, then
\* its children are visited
RECURSIVE checkRouteAccess(_, _, _)
checkRouteAccess(routes, userPermissions, userRoles) ==
  IF routes = <<>> THEN <<>>
  ELSE (IF canAccessRoute(Head(routes).path, userPermissions, userRoles)
        THEN <<Head(routes)>> ELSE <<>>)
       \o checkRouteAccess(Head(routes).children, userPermissions, userRoles)
       \o checkRouteAccess(Tail(routes), userPermissions, userRoles)

getAccessibleRoutes(userPermissions, userRoles) ==
  checkRouteAccess(routesConfig, userPermissions, userRoles)

CallCanAccessRoute ==
  /\ routeCall = NoRouteCall
  /\ \E path \in Paths, userPermissions \in PermissionNameLists,
        userRoles \in RoleNameLists :
       routeCall' = [op |-> "canAccessRoute", path |-> path,
                     userPermissions |-> userPermissions, userRoles |-> userRoles,
                     value |-> canAccessRoute(path, userPermissions, userRoles),
                     routes |-> <<>>]
  /\ UNCHANGED <<localStorage, added, maxItems>>
  /\ UNCHANGED <<checkerVars, httpVars, uiVars>>

CallGetAccessibleRoutes ==
  /\ routeCall = NoRouteCall
  /\ \E userPermissions \in PermissionNameLists, userRoles \in RoleNameLists :
       routeCall' = [op |-> "getAccessibleRoutes", path |-> "none",
                     userPermissions |-> userPermissions, userRoles |-> userRoles,
                     value |-> FALSE,
                     routes |-> getAccessibleRoutes(userPermissions, userRoles)]
  /\ UNCHANGED <<localStorage, added, maxItems>>
  /\ UNCHANGED <<checkerVars, httpVars, uiVars>>

\* The caller has used what the helper returned
RouteCallReturns ==
  /\ routeCall # NoRouteCall
  /\ routeCall' = NoRouteCall
  /\ UNCHANGED <<localStorage, added, maxItems>>
  /\ UNCHANGED <<checkerVars, httpVars, uiVars>>

NextRoutes ==
  \/ CallCanAccessRoute
  \/ CallGetAccessibleRoutes
  \/ RouteCallReturns

SpecRoutes == InitUi /\ [][NextRoutes]_vars

-----------------------------------------------------------------------------
(* The recent searches (recentSearchesStorage over LocalStorageService).  The
   storage is available and accepts every write. *)

Searches == {"react", "hooks", "redux"}

\* The JSON text of a string
Quote(search) == "\"" \o search \o "\""

Unquote(token) == CHOOSE search \in Searches : Quote(search) = token

\* JSON.stringify(value) of an array of strings, token by token
RECURSIVE Elements(_)
Elements(value) ==
  IF value = <<>> THEN <<>>
  ELSE IF Len(value) = 1 THEN <<Quote(value[1])>>
  ELSE <<Quote(Head(value)), ",">> \o Elements(Tail(value))

JSONstringify(value) == <<"[">> \o Elements(value) \o <<"]">>

\* JSON.parse(item): the array the text denotes, or a SyntaxError
JSONparse(text) ==
  IF /\ Len(text) >= 2
     /\ text[1] = "[" /\ text[Len(text)] = "]"
     /\ \/ Len(text) = 2
        \/ /\ Len(text) % 2 = 1
           /\ \A i \in 2..(Len(text) - 1) :
                IF i % 2 = 0 THEN \E search \in Searches : text[i] = Quote(search)
                ELSE text[i] = ","
  THEN [threw |-> FALSE,
        value |-> [i \in 1..((Len(text) - 1) \div 2) |-> Unquote(text[2 * i])]]
  ELSE [threw |-> TRUE, value |-> <<>>]

\* LocalStorageService.get(key, defaultValue)
get(item, defaultValue) ==
  IF ~item.present THEN defaultValue
  ELSE IF JSONparse(item.text).threw THEN defaultValue
  ELSE JSONparse(item.text).value

\* LocalStorageService.set(key, value): the entry after the call
set(value) == [present |-> TRUE, text |-> JSONstringify(value)]

\* array.slice(0, end)
Slice(array, end) == SubSeq(array, 1, IF end < Len(array) THEN end ELSE Len(array))

\* Variant: the search is put in front without taking its older entry out
add_KeepsOlderEntry(item, search, limit) ==
  set(Slice(<<search>> \o get(item, <<>>), limit))

\* recentSearchesStorage.add(search, maxItems): the entry after the call
add(item, search, limit) ==
  set(Slice(<<search>> \o SelectSeq(get(item, <<>>), LAMBDA s : s # search), limit))

AddSearch ==
  /\ Len(added) < MaxAdded
  /\ \E search \in Searches :
       /\ localStorage' = add(localStorage, search, maxItems)
       /\ added' = Append(added, search)
  /\ UNCHANGED <<routeCall, maxItems>>
  /\ UNCHANGED <<checkerVars, httpVars, uiVars>>

\* Nothing stored yet; the caller settles on one maxItems
InitSearches ==
  /\ HttpInit
  /\ store = initialState
  /\ storage = NoEntry
  /\ view = NoView
  /\ routeCall = NoRouteCall
  /\ localStorage = NoItem
  /\ added = <<>>
  /\ maxItems \in 1..MaxItems
  /\ user = NullValue
  /\ permissions = constructor(NullValue).permissions
  /\ roles = constructor(NullValue).roles
  /\ permissionCache = constructor(NullValue).permissionCache
  /\ roleCache = constructor(NullValue).roleCache
  /\ guardCache = constructor(NullValue).guardCache
  /\ pc = "ready"
  /\ ret = NoCall
  /\ other = constructor(NullValue)

NextSearches == AddSearch

SpecSearches == InitSearches /\ [][NextSearches]_vars

-----------------------------------------------------------------------------
(* AxiosAdapter: the properties *)

\* Requests whose handler awaits a refresh-token request
Refreshing == {r \in Requests : requests[r].state = "refreshing"}

Settled(r) == requests[r].state \in {"resolved", "rejected"}

(* C21: across the requests issued through apiInstance at most one
   refresh-token request is in flight at any time: a 401 arriving while a
   refresh is in flight is queued and starts no second refresh. *)
C21_SingleRefreshInFlight ==
  Cardinality({r \in Refreshing : requests[r].via = "apiInstance"}) <= 1

(* C24: a request waits in failedQueue only while the refresh of its adapter
   is in flight, and the completion of that refresh settles the whole queue:
   on success every queued request is sent again, once, with the new access
   token as its Authorization header, and its promise settles with what that
   second send gets; on failure it is rejected; in both cases the queue is
   then empty and isRefreshing false. *)
C24_QueuedRequestsSettled ==
  /\ [](\A a \in Adapters :
          /\ isRefreshing[a] <=> \E r \in Refreshing : requests[r].adapter = a
          /\ ~isRefreshing[a] => failedQueue[a] = <<>>
          /\ Cardinality(Queued(a)) = Len(failedQueue[a])
          /\ \A r \in Requests :
               (requests[r].state = "queued" /\ requests[r].adapter = a) <=> r \in Queued(a))
  /\ [][\A r \in Requests :
          (requests[r].state = "queued" /\ requests'[r].state # "queued")
            => /\ failedQueue'[requests[r].adapter] = <<>>
               /\ ~isRefreshing'[requests[r].adapter]
               /\ \/ /\ requests'[r].state = "inflight"
                     /\ requests'[r].sent = requests[r].sent + 1
                     /\ requests'[r].sent = 2
                     /\ cookies'.access \in Tokens
                     /\ requests'[r].Authorization = cookies'.access
                  \/ /\ requests'[r].state = "rejected"
                     /\ requests'[r].outcome = "refreshError"]_vars
  /\ [][\A r \in Requests :
          (requests[r].state = "inflight" /\ requests[r].sent = 2
             /\ requests'[r].state # "inflight")
            => Settled(r)' /\ requests'[r].outcome \in {"response", "401", "error"}]_vars

C24_Witness ==
  \E r, q \in Requests :
    /\ r # q
    /\ requests[r].adapter = requests[q].adapter
    /\ requests[r].state = "resolved" /\ requests[r].sent = 2
    /\ requests[q].state = "inflight" /\ requests[q].sent = 2
    /\ requests[q].Authorization = cookies.access
    /\ failedQueue[requests[r].adapter] = <<>>
    /\ ~isRefreshing[requests[r].adapter]

(* C25: when the refresh-token request fails, every request queued on that
   adapter is rejected with the refresh error, the queue is emptied, the
   access-token and refresh-token cookies are removed, the location becomes
   '/login', the request that started the refresh is rejected with the
   refresh error and isRefreshing is false again. *)
C25_RefreshFailure ==
  [][\A r \in Requests :
       (requests[r].state = "refreshing" /\ requests'[r].state = "rejected")
         => /\ requests'[r].outcome = "refreshError"
            /\ \A q \in Queued(requests[r].adapter) :
                 requests'[q].state = "rejected" /\ requests'[q].outcome = "refreshError"
            /\ failedQueue'[requests[r].adapter] = <<>>
            /\ cookies'.access = NoToken
            /\ ~cookies'.refresh
            /\ location' = "/login"
            /\ ~isRefreshing'[requests[r].adapter]]_vars

\* A refresh failed on an adapter with a request in its queue
C25_Witness ==
  \E r, q \in Requests :
    /\ r # q
    /\ requests[r].adapter = requests[q].adapter
    /\ requests[r].outcome = "refreshError" /\ requests[q].outcome = "refreshError"
    /\ requests[r].sent = 1 /\ requests[q].sent = 1
    /\ requests[r].retry /\ requests[q].retry
    /\ cookies = [access |-> NoToken, refresh |-> FALSE]
    /\ location = "/login"
    /\ ~isRefreshing[requests[r].adapter]

(* C26: a request is sent at most twice: it is marked before it is queued or
   starts a refresh, a marked request answered with 401 again is rejected and
   starts no refresh, and a 401 without a refresh-token cookie is rejected at
   once. *)
C26_RetriedAtMostOnce ==
  /\ [](\A r \in Requests :
          /\ requests[r].sent <= 2
          /\ requests[r].sent = 2 => requests[r].retry
          /\ requests[r].state \in {"queued", "refreshing"}
               => requests[r].retry /\ requests[r].sent = 1)
  /\ [][\A r \in Requests :
          (/\ requests[r].state = "inflight"
           /\ requests'[r].state # "inflight"
           /\ requests[r].retry \/ ~cookies.refresh)
            => /\ Settled(r)'
               /\ isRefreshing' = isRefreshing
               /\ failedQueue' = failedQueue]_vars

C26_Witness ==
  \E r \in Requests :
    /\ requests[r].state = "rejected"
    /\ requests[r].outcome = "401"
    /\ requests[r].sent = 2
    /\ requests[r].retry
    /\ cookies.refresh
    /\ ~isRefreshing[requests[r].adapter]

-----------------------------------------------------------------------------
(* The store and the gating components: the properties *)

Rendered(component) == view.component = component

\* What checkPermissions decides for the store's user as the component saw it
Granted ==
  checkPermissions(constructor(view.state.user), CheckOptions(view.props)).value.hasPermission

EvaluationError ==
  checkPermissions(constructor(view.state.user), CheckOptions(view.props)).value.error
    \notin {"none", "AuthenticationError"}

SignedIn == view.state.isAuthenticated /\ view.state.user # NullValue

(* C22 as stated: PermissionMiddleware renders its children exactly when the
   store's isAuthenticated is true, the user is not null and checkPermissions
   grants; in every other case it renders the fallbackComponent. *)
C22_DeniedShowsFallback ==
  Rendered("PermissionMiddleware")
    => /\ view.rendered = "children" <=> (SignedIn /\ Granted)
       /\ view.rendered # "children" => view.rendered = "fallbackComponent"

(* C22 amended: PermissionMiddleware renders its children exactly when the
   store's isAuthenticated is true, the user is not null and checkPermissions
   grants; otherwise the children are never rendered, and the
   fallbackComponent is rendered unless the evaluation raised an error and
   showErrorBoundary is true (its default), in which case the error message
   is rendered in its place and onError is invoked. *)
C22_DeniedNeverShowsChildren ==
  Rendered("PermissionMiddleware")
    => /\ view.rendered = "children" <=> (SignedIn /\ Granted)
       /\ view.rendered # "children"
            => IF SignedIn /\ EvaluationError /\ view.props.showErrorBoundary
               THEN view.rendered = "error" /\ view.onError
               ELSE view.rendered = "fallbackComponent"
       /\ view.onPermissionDenied
            <=> (SignedIn /\ ~Granted /\ view.rendered = "fallbackComponent")

C22_Witness ==
  /\ Rendered("PermissionMiddleware")
  /\ SignedIn
  /\ EvaluationError
  /\ view.props.showErrorBoundary
  /\ view.rendered = "error"

Required ==
  \/ Len(view.props.requiredPermissions) > 0
  \/ Len(view.props.requiredRoles) > 0
  \/ Len(view.props.requiredGuardNames) > 0

(* C23: RouteGuard renders only the loading placeholder and navigates to
   '/login' (replace, state.from the current path) when the store's
   isAuthenticated is false; renders the fallback and navigates to redirectTo
   when authenticated, some requirement list is non-empty and the check
   fails; and renders its children only when authenticated and either every
   requirement list is empty or the check grants. *)
C23_RouteGuardNeverLeaks ==
  Rendered("RouteGuard")
    => /\ ~view.state.isAuthenticated
            => /\ view.rendered = "loading"
               /\ view.navigate = [to |-> "/login", replace |-> TRUE, from |-> view.pathname]
       /\ (view.state.isAuthenticated /\ Required /\ ~Granted)
            => /\ view.rendered = "fallbackComponent"
               /\ view.navigate = [to |-> view.props.redirectTo, replace |-> TRUE,
                                   from |-> "none"]
       /\ view.rendered = "children"
            <=> (view.state.isAuthenticated /\ (~Required \/ Granted))
       /\ view.rendered = "children" => view.navigate = NoNavigate

C23_Witness ==
  /\ Rendered("RouteGuard")
  /\ view.state.isAuthenticated
  /\ Required
  /\ ~Granted
  /\ view.rendered = "fallbackComponent"
  /\ view.navigate.to = "/401"

(* C27: in every reachable state of the store, after any sequence of
   setUser, clearUser and reset and after the store is restored from its
   persisted entry, isAuthenticated is true exactly when user is not null. *)
C27_AuthenticatedIffUser ==
  store.isAuthenticated <=> store.user # NullValue

(* C28: for every navigation item and every authenticated user whose hooks
   answered, Navigation shows the item exactly when checkPermissions grants
   with requiredPermissions = item.permissions, requiredRoles = item.roles
   and requireAll = item.requireAll. *)
C28_NavigationAgreesWithEvaluator ==
  (Rendered("Navigation") /\ SignedIn /\ view.rendered # "error")
    => (view.rendered = "item"
          <=> checkPermissions(HookChecker(view.state.user),
                               CheckOptions(view.props)).value.hasPermission)

-----------------------------------------------------------------------------
(* The route helpers: the properties *)

\* An authenticated user holding exactly the names the caller passed
UserNamed(permissionNames, roleNames) ==
  [permissions |-> [i \in 1..Len(permissionNames) |->
                      [name |-> permissionNames[i], guardName |-> "web"]],
   roles |-> [i \in 1..Len(roleNames) |-> [name |-> roleNames[i]]]]

\* What checkPermissions decides for that user on the requirements of a route
RouteGranted(route, permissionNames, roleNames) ==
  checkPermissions(constructor(UserNamed(permissionNames, roleNames)),
                   [requiredPermissions |-> RouteField(route, "permissions", <<>>),
                    requiredRoles |-> RouteField(route, "roles", <<>>),
                    requiredGuardNames |-> RouteField(route, "guards", <<>>),
                    requireAll |-> RouteField(route, "requireAll", FALSE)]).value.hasPermission

\* The configured routes, parents before their children
RECURSIVE Flatten(_)
Flatten(routes) ==
  IF routes = <<>> THEN <<>>
  ELSE <<Head(routes)>> \o Flatten(Head(routes).children) \o Flatten(Tail(routes))

ConfiguredRoutes == Flatten(routesConfig)

ConfiguredPaths == {ConfiguredRoutes[i].path : i \in 1..Len(ConfiguredRoutes)}

\* The configured routes that are not public
Guarded(route) == ~RouteField(route, "isPublic", FALSE)

(* C29: for every configured route that is not public, canAccessRoute on its
   path answers what checkPermissions decides for an authenticated user
   holding the names passed, asked for the route's permissions, roles, guards
   and requireAll; for a path that matches no configured route it answers
   false; and getAccessibleRoutes returns exactly the configured routes whose
   own requirements that decision satisfies, in configuration order. *)
C29_RouteAccessAgreesWithEvaluator ==
  /\ routeCall.op = "canAccessRoute"
       => /\ \A i \in 1..Len(ConfiguredRoutes) :
               (ConfiguredRoutes[i].path = routeCall.path /\ Guarded(ConfiguredRoutes[i]))
                 => (routeCall.value
                       <=> RouteGranted(ConfiguredRoutes[i], routeCall.userPermissions,
                                        routeCall.userRoles))
          /\ routeCall.path \notin ConfiguredPaths => ~routeCall.value
  /\ routeCall.op = "getAccessibleRoutes"
       => routeCall.routes
            = SelectSeq(ConfiguredRoutes,
                        LAMBDA route : \/ ~Guarded(route)
                                       \/ RouteGranted(route, routeCall.userPermissions,
                                                       routeCall.userRoles))

\* A configured route asked about for a user holding a permission and a role
C29_Witness ==
  /\ routeCall.op = "canAccessRoute"
  /\ routeCall.path = "users"
  /\ routeCall.userPermissions = <<"user.create">>
  /\ routeCall.userRoles = <<"manager">>
  /\ routeCall.value

-----------------------------------------------------------------------------
(* The recent searches: the properties *)

\* The list a reader of the entry gets
StoredSearches == get(localStorage, <<>>)

\* The position of the latest add of a search among the calls so far
LastAdded(search) ==
  IF \E i \in 1..Len(added) : added[i] = search
  THEN CHOOSE i \in 1..Len(added) :
         /\ added[i] = search
         /\ \A j \in (i + 1)..Len(added) : added[j] # search
  ELSE 0

(* C30: after any sequence of recentSearchesStorage.add calls with one
   maxItems >= 1, the stored list starts with the search added last, has no
   duplicates, runs from the most to the least recently added search, is at
   most maxItems long, and holds exactly the maxItems most recently added
   searches (all of them if fewer were added). *)
C30_RecentSearchesOrdered ==
  added # <<>>
    => /\ StoredSearches # <<>>
       /\ StoredSearches[1] = added[Len(added)]
       /\ \A i, j \in 1..Len(StoredSearches) :
            i # j => StoredSearches[i] # StoredSearches[j]
       /\ \A i, j \in 1..Len(StoredSearches) :
            i < j => LastAdded(StoredSearches[i]) > LastAdded(StoredSearches[j])
       /\ Len(StoredSearches) <= maxItems
       /\ \/ Len(StoredSearches) = maxItems
          \/ Range(StoredSearches) = Range(added)
       /\ \A search \in Range(added) \ Range(StoredSearches) :
            \A i \in 1..Len(StoredSearches) :
              LastAdded(search) < LastAdded(StoredSearches[i])

\* A search added again after the list had already dropped an older one
C30_Witness ==
  /\ Len(added) >= 3
  /\ Len(StoredSearches) = maxItems
  /\ Cardinality(Range(added)) > maxItems
  /\ \E i \in 1..(Len(added) - 1) : added[i] = added[Len(added)]
  /\ maxItems >= 2

====
